---- MODULE Spec2Model ----
(***************************************************************************)
(* State-machine model of cbits/simplessh.c: one sequential caller drives  *)
(* the public operations (open session, authenticate, exec command, send   *)
(* file, close session) of one session at a time.  Every call into the     *)
(* protocol engine (libssh2) and into the socket layer is one step whose   *)
(* result is chosen nondeterministically among the results the engine can  *)
(* return: done, would-block (LIBSSH2_ERROR_EAGAIN) or a hard failure.     *)
(***************************************************************************)
EXTENDS Integers, Sequences, FiniteSets, TLC

\* ---------------------------------------------------------------- bounds
MaxOpens == 2          \* simplessh_open_session calls per behaviour
MaxCands == 2          \* addresses returned by getaddrinfo
MaxReads == 11         \* positive-length deliveries in one exec, both streams
MaxShort == 1          \* of these, deliveries of fewer bytes than requested
MaxPartial == 2        \* writes accepting some but not all requested bytes, per send
MaxLiveReads == 2      \* positive-length deliveries in one exec of SpecLive
MaxExtra == 2          \* bytes beyond two full chunks in the longest payload

\* ------------------------------------------------------ program constants
InitialSize == 128     \* out_size / err_size at the start of the drain
Headroom == 1024       \* grow when size - position drops below this
GrowCap == 65536       \* largest growth step
ChunkSize == 16384     \* 16 * 1024, largest write request
DefaultExit == 127     \* result->exit_code before the channel is closed

EAGAIN == -37          \* LIBSSH2_ERROR_EAGAIN
HardError == -1        \* any negative engine result other than EAGAIN

min(a, b) == IF a < b THEN a ELSE b

\* ------------------------------------------------------------ byte memory
\* A buffer is a sequence of runs; the run [s, o, n] stands for the n bytes
\* at offsets o .. o+n-1 of stream s ("out", "err"), "nul" is the terminator
\* byte and "junk" is memory that was never written.
Run(s, o, n) == [s |-> s, o |-> o, n |-> n]

RECURSIVE MemLen(_)
MemLen(m) == IF m = <<>> THEN 0 ELSE Head(m).n + MemLen(Tail(m))

RECURSIVE MemTake(_, _)
MemTake(m, k) ==
  IF k <= 0 \/ m = <<>> THEN <<>>
  ELSE IF Head(m).n <= k THEN <<Head(m)>> \o MemTake(Tail(m), k - Head(m).n)
  ELSE <<Run(Head(m).s, Head(m).o, k)>>

RECURSIVE MemDrop(_, _)
MemDrop(m, k) ==
  IF m = <<>> THEN <<>>
  ELSE IF k <= 0 THEN m
  ELSE IF Head(m).n <= k THEN MemDrop(Tail(m), k - Head(m).n)
  ELSE <<Run(Head(m).s, IF Head(m).s \in {"junk", "nul"} THEN 0 ELSE Head(m).o + k,
             Head(m).n - k)>> \o Tail(m)

RECURSIVE MemNorm(_)
MemNorm(m) ==
  IF Len(m) < 2 THEN m
  ELSE LET a == m[1]
           b == m[2]
       IN IF a.s = b.s /\ a.s \notin {"junk", "nul"} /\ a.o + a.n = b.o
          THEN MemNorm(<<Run(a.s, a.o, a.n + b.n)>> \o Tail(Tail(m)))
          ELSE <<a>> \o MemNorm(Tail(m))

\* the engine (or the program) stores run r at byte offset p of the buffer
MemWrite(m, p, r) ==
  LET padded == IF MemLen(m) < p THEN m \o <<Run("junk", 0, p - MemLen(m))>> ELSE m
  IN MemNorm(MemTake(padded, p) \o <<r>> \o MemDrop(padded, p + r.n))

\* ------------------------------------------------------------- the either
\* struct simplessh_either: a side tag and the member u, which holds either
\* the error kind or the pointer to the success value, never both.
UnionStore(tag, val) == [tag |-> tag, val |-> val]

EitherRight(val) == [side |-> "RIGHT", u |-> UnionStore("value", val)]

returnError(e, err) == [e EXCEPT !.side = "LEFT", !.u = UnionStore("error", err)]

NoEither == [side |-> "NONE", u |-> UnionStore("none", "none")]

VARIABLES
  pc,            \* position of the caller / of the running public call
  have_session,  \* the caller holds a session returned by a successful open
  smem,          \* struct simplessh_session: "none", "alloc", "freed"
  sock,          \* session->sock: "none" (-1), "open", "closed"
  lsession,      \* session->lsession: "null", "live", "disc", "freed"
  init_calls,    \* libssh2_init calls
  exit_calls,    \* libssh2_exit calls
  opens,         \* simplessh_open_session calls so far
  either,        \* the either of the running / last call
  last_call,     \* name of the running / last public call
  close_ret,     \* who runs simplessh_close_session: "caller", or the error kind
                 \* returnLocalErrorSP returns after it
  \* get_socket
  resolved,      \* getaddrinfo succeeded
  cands,         \* resolved addresses: cands[i] is TRUE iff address i becomes ready
  current,       \* index of the loop variable current in the address list
  gsock,         \* the local sock: [st, fam, addr], fam/addr = index of the address used
  tried,         \* addresses passed to connect, in order
  fds_open,      \* sockets created by this get_socket call and not closed
  res_freed,     \* freeaddrinfo calls of this get_socket call
  gs_ret,        \* return value of get_socket: [fd, cand, addr]
  \* simplessh_exec_command and simplessh_send_file
  channel,       \* the channel handle: "null", "live", "freed"
  chan_got,      \* a channel handle was obtained during the running call
  chan_free_called, \* that handle was passed to libssh2_channel_free
  result,        \* struct simplessh_result: [st, out, err, exit_code, exit_signal]
  rc,            \* int rc
  rc2,           \* int rc2
  out,           \* char *out: [st, cap, mem]
  err,           \* char *err: [st, cap, mem]
  out_size,
  out_position,
  err_size,
  err_position,
  sent,          \* bytes the engine has delivered so far on each stream
  nreads,        \* positive-length reads so far on each stream, and short ones
  engine_exit,   \* what the engine reported: [code, signal]
  data_len,
  transferred,   \* [st, val]: the malloc'ed int *transferred
  n,             \* size_t n
  current_off,   \* char *current, as an offset into data
  accepted,      \* payload bytes the engine accepted, in order
  npartial,      \* writes that accepted fewer bytes than requested
  \* the engine, as this layer has driven it during the running call
  pending,       \* operations that returned would-block with no waitsocket since
  failed,        \* operations that returned a hard failure
  eof            \* streams on which a read has returned 0

sessVars == <<have_session, smem, sock, lsession, init_calls, exit_calls, opens, close_ret>>
gsVars == <<resolved, cands, current, gsock, tried, fds_open, res_freed, gs_ret>>
execVars == <<channel, chan_got, chan_free_called, result, rc, rc2, out, err, out_size,
              out_position, err_size, err_position, sent, nreads, engine_exit>>
sendVars == <<data_len, transferred, n, current_off, accepted, npartial>>
engVars == <<pending, failed, eof>>
vars == <<pc, either, last_call, sessVars, gsVars, execVars, sendVars, engVars>>

NullBuf == [st |-> "null", cap |-> 0, mem |-> <<>>]
NoResult == [st |-> "none", out |-> NullBuf, err |-> NullBuf,
             exit_code |-> 0, exit_signal |-> "NULL"]
NoSock == [st |-> "none", fam |-> 0, addr |-> 0]
NoRet == [fd |-> "none", cand |-> 0, addr |-> 0]

\* locals of a public call are fresh when the call starts
GsClear ==
  /\ resolved' = FALSE /\ cands' = <<>> /\ current' = 0 /\ gsock' = NoSock
  /\ tried' = <<>> /\ fds_open' = 0 /\ res_freed' = 0 /\ gs_ret' = NoRet

ChanClear ==
  /\ channel' = "null" /\ chan_got' = FALSE /\ chan_free_called' = FALSE
  /\ rc' = 0

ExecClear ==
  /\ result' = NoResult /\ rc2' = 0 /\ out' = NullBuf /\ err' = NullBuf
  /\ out_size' = 0 /\ out_position' = 0 /\ err_size' = 0 /\ err_position' = 0
  /\ sent' = [out |-> 0, err |-> 0] /\ nreads' = [out |-> 0, err |-> 0, short |-> 0]
  /\ engine_exit' = [code |-> 0, signal |-> "NULL"]

SendClear ==
  /\ data_len' = 0 /\ transferred' = [st |-> "none", val |-> 0] /\ n' = 0
  /\ current_off' = 0 /\ accepted' = <<>> /\ npartial' = 0

EngClear ==
  /\ pending' = {} /\ failed' = {} /\ eof' = [out |-> FALSE, err |-> FALSE]

\* the engine operation op has returned r
Track(op, r) ==
  /\ pending' = IF r = EAGAIN THEN pending \cup {op} ELSE pending \ {op}
  /\ failed' = IF r < 0 /\ r # EAGAIN THEN failed \cup {op} ELSE failed

Init ==
  /\ pending = {} /\ failed = {} /\ eof = [out |-> FALSE, err |-> FALSE]
  /\ pc = "idle" /\ either = NoEither /\ last_call = "none"
  /\ have_session = FALSE /\ smem = "none" /\ sock = "none" /\ lsession = "null"
  /\ init_calls = 0 /\ exit_calls = 0 /\ opens = 0 /\ close_ret = "caller"
  /\ resolved = FALSE /\ cands = <<>> /\ current = 0 /\ gsock = NoSock
  /\ tried = <<>> /\ fds_open = 0 /\ res_freed = 0 /\ gs_ret = NoRet
  /\ channel = "null" /\ chan_got = FALSE /\ chan_free_called = FALSE /\ rc = 0
  /\ result = NoResult /\ rc2 = 0 /\ out = NullBuf /\ err = NullBuf
  /\ out_size = 0 /\ out_position = 0 /\ err_size = 0 /\ err_position = 0
  /\ sent = [out |-> 0, err |-> 0] /\ nreads = [out |-> 0, err |-> 0, short |-> 0]
  /\ engine_exit = [code |-> 0, signal |-> "NULL"]
  /\ data_len = 0 /\ transferred = [st |-> "none", val |-> 0] /\ n = 0
  /\ current_off = 0 /\ accepted = <<>> /\ npartial = 0

\* ============================================================ get_socket
CandLists == UNION {[1..k -> BOOLEAN] : k \in 1..MaxCands}

\* struct addrinfo *res: the head of the resolved list
res == 1

\* simplessh_open_session up to the call of get_socket
OpenStart ==
  /\ pc = "idle" /\ ~have_session /\ opens < MaxOpens
  /\ init_calls' = init_calls + 1
  /\ opens' = opens + 1
  /\ smem' = "alloc" /\ lsession' = "null" /\ sock' = "none"
  /\ either' = EitherRight("session")
  /\ last_call' = "open"
  /\ GsClear /\ ChanClear /\ ExecClear /\ SendClear
  /\ pc' = "gs_getaddrinfo"
  /\ UNCHANGED <<have_session, exit_calls, close_ret>>
  /\ EngClear

\* getaddrinfo and the rc != 0 return
Getaddrinfo ==
  /\ pc = "gs_getaddrinfo"
  /\ \/ /\ resolved' = FALSE
        /\ gs_ret' = [fd |-> "fail", cand |-> 0, addr |-> 0]
        /\ pc' = "open_connected"
        /\ UNCHANGED <<cands, current>>
     \/ /\ resolved' = TRUE
        /\ cands' \in CandLists
        /\ current' = res
        /\ pc' = "gs_socket"
        /\ UNCHANGED gs_ret
  /\ UNCHANGED <<either, last_call, sessVars, gsock, tried, fds_open, res_freed,
                 execVars, sendVars>>
  /\ UNCHANGED engVars

\* the for loop ran out of candidates: freeaddrinfo(res); return -1
GsExhausted ==
  /\ pc = "gs_socket" /\ current > Len(cands)
  /\ res_freed' = res_freed + 1
  /\ gs_ret' = [fd |-> "fail", cand |-> 0, addr |-> 0]
  /\ pc' = "open_connected"
  /\ UNCHANGED <<either, last_call, sessVars, resolved, cands, current, gsock, tried,
                 fds_open, execVars, sendVars>>
  /\ UNCHANGED engVars

\* socket(res->ai_family, ...); if(sock == -1) continue
GsSocket ==
  /\ pc = "gs_socket" /\ current <= Len(cands)
  /\ \/ /\ gsock' = [st |-> "open", fam |-> res, addr |-> 0]
        /\ fds_open' = fds_open + 1
        /\ pc' = "gs_connect"
        /\ UNCHANGED current
     \/ /\ gsock' = NoSock
        /\ current' = current + 1
        /\ UNCHANGED <<pc, fds_open>>
  /\ UNCHANGED <<either, last_call, sessVars, resolved, cands, tried, res_freed, gs_ret,
                 execVars, sendVars>>
  /\ UNCHANGED engVars

\* connect(sock, res->ai_addr, res->ai_addrlen)
GsConnect ==
  /\ pc = "gs_connect"
  /\ gsock' = [gsock EXCEPT !.addr = res]
  /\ tried' = Append(tried, res)
  /\ pc' = "gs_poll"
  /\ UNCHANGED <<either, last_call, sessVars, resolved, cands, current, fds_open,
                 res_freed, gs_ret, execVars, sendVars>>
  /\ UNCHANGED engVars

\* mutant: the failed candidate's socket is left open
CloseFd_Skipped(open_fds) == open_fds

\* end_loop: close(sock)
CloseFd(open_fds) == open_fds - 1

\* poll, then either return sock or close(sock) and go to the next candidate
GsPoll ==
  /\ pc = "gs_poll"
  /\ \/ /\ cands[gsock.addr]
        /\ res_freed' = res_freed + 1
        /\ gs_ret' = [fd |-> "open", cand |-> current, addr |-> gsock.addr]
        /\ pc' = "open_connected"
        /\ UNCHANGED <<current, gsock, fds_open>>
     \/ /\ ~cands[gsock.addr]
        /\ \E outcome \in {"timeout", "pollfail", "noevent"} :
             /\ gsock' = [gsock EXCEPT !.st = "closed"]
             /\ fds_open' = CloseFd(fds_open)
        /\ current' = current + 1
        /\ pc' = "gs_socket"
        /\ UNCHANGED <<res_freed, gs_ret>>
  /\ UNCHANGED <<either, last_call, sessVars, resolved, cands, tried, execVars, sendVars>>
  /\ UNCHANGED engVars

\* ================================================= simplessh_close_session
\* libssh2_session_disconnect(session->lsession, ...); the result is ignored.
\* A call on a NULL handle is undefined: the process dies or the call fails.
SessionDisconnect ==
  /\ pc = "close_disconnect"
  /\ IF lsession = "null"
     THEN /\ pc' \in {"crashed", "close_free"}
          /\ UNCHANGED lsession
     ELSE /\ \E r \in {0, EAGAIN, HardError} :
               lsession' = IF r = 0 THEN "disc" ELSE lsession
          /\ pc' = "close_free"
  /\ UNCHANGED <<either, last_call, have_session, smem, sock, init_calls, exit_calls,
                 opens, close_ret, gsVars, execVars, sendVars>>
  /\ UNCHANGED engVars

\* libssh2_session_free(session->lsession); the result is ignored, the handle
\* is released only when the engine reports done
SessionFreeDone(r, h) == IF r = 0 THEN "freed" ELSE h

SessionFree ==
  /\ pc = "close_free"
  /\ IF lsession = "null"
     THEN /\ pc' \in {"crashed", "close_sock"}
          /\ UNCHANGED lsession
     ELSE /\ \E r \in {0, EAGAIN, HardError} : lsession' = SessionFreeDone(r, lsession)
          /\ pc' = "close_sock"
  /\ UNCHANGED <<either, last_call, have_session, smem, sock, init_calls, exit_calls,
                 opens, close_ret, gsVars, execVars, sendVars>>
  /\ UNCHANGED engVars

\* close(session->sock)
CloseSock ==
  /\ pc = "close_sock"
  /\ sock' = "closed"
  /\ pc' = "close_mem"
  /\ UNCHANGED <<either, last_call, have_session, smem, lsession, init_calls, exit_calls,
                 opens, close_ret, gsVars, execVars, sendVars>>
  /\ UNCHANGED engVars

\* free(session); libssh2_exit(); and the return to whoever called close:
\* the caller, or returnLocalErrorSP in simplessh_open_session
CloseReturn ==
  /\ pc = "close_mem"
  /\ smem' = "freed"
  /\ exit_calls' = exit_calls + 1
  /\ either' = IF close_ret = "caller" THEN either ELSE returnError(either, close_ret)
  /\ pc' = "idle"
  /\ UNCHANGED <<last_call, have_session, sock, lsession, init_calls, opens, close_ret,
                 gsVars, execVars, sendVars>>
  /\ UNCHANGED engVars

\* the caller calls simplessh_close_session on the session it holds
CloseStart ==
  /\ pc = "idle" /\ have_session
  /\ have_session' = FALSE
  /\ close_ret' = "caller"
  /\ last_call' = "close"
  /\ either' = NoEither
  /\ GsClear /\ ChanClear /\ ExecClear /\ SendClear
  /\ pc' = "close_disconnect"
  /\ UNCHANGED <<smem, sock, lsession, init_calls, exit_calls, opens>>
  /\ EngClear

\* ================================================== simplessh_open_session
\* session->sock = get_socket(...); if(session->sock == -1) returnError(CONNECT)
OpenConnected ==
  /\ pc = "open_connected"
  /\ IF gs_ret.fd = "open"
     THEN /\ sock' = "open"
          /\ pc' = "open_init"
          /\ UNCHANGED either
     ELSE /\ sock' = "none"
          /\ either' = returnError(either, "CONNECT")
          /\ pc' = "idle"
  /\ UNCHANGED <<last_call, have_session, smem, lsession, init_calls, exit_calls, opens,
                 close_ret, gsVars, execVars, sendVars>>
  /\ UNCHANGED engVars

\* session->lsession = libssh2_session_init(); if(!session) returnLocalErrorSP(INIT):
\* the test reads session, the record malloc returned, never the new handle
InitFailed(session_ptr, handle) == session_ptr = "none"

SessionInit ==
  /\ pc = "open_init"
  /\ lsession' \in {"live", "null"}
  /\ IF InitFailed(smem, lsession')
     THEN /\ close_ret' = "INIT"
          /\ pc' = "close_disconnect"
     ELSE /\ pc' = "open_setup"
          /\ UNCHANGED close_ret
  /\ UNCHANGED <<either, last_call, have_session, smem, sock, init_calls, exit_calls,
                 opens, gsVars, execVars, sendVars>>
  /\ UNCHANGED engVars

\* libssh2_session_set_blocking(lsession, 0); libssh2_session_set_timeout(...)
OpenSetup ==
  /\ pc = "open_setup"
  /\ pc' \in IF lsession = "null" THEN {"crashed", "open_handshake"} ELSE {"open_handshake"}
  /\ UNCHANGED <<either, last_call, sessVars, gsVars, execVars, sendVars>>
  /\ UNCHANGED engVars

\* while((rc = libssh2_session_handshake(...)) == EAGAIN); if(rc) returnLocalErrorSP
Handshake ==
  /\ pc = "open_handshake"
  /\ \E r \in IF lsession = "null" THEN {HardError} ELSE {0, EAGAIN, HardError} :
       /\ rc' = r
       /\ IF r = EAGAIN
          THEN UNCHANGED <<pc, have_session, close_ret>>
          ELSE IF r = 0
          THEN /\ pc' = "idle"
               /\ have_session' = TRUE
               /\ UNCHANGED close_ret
          ELSE /\ pc' = "close_disconnect"
               /\ close_ret' = "HANDSHAKE"
               /\ UNCHANGED have_session
  /\ UNCHANGED <<either, last_call, smem, sock, lsession, init_calls, exit_calls, opens,
                 gsVars, channel, chan_got, chan_free_called, result, rc2, out, err,
                 out_size, out_position, err_size, err_position, sent, nreads,
                 engine_exit, sendVars>>
  /\ Track("handshake", rc') /\ UNCHANGED eof

\* the handshake on a NULL handle is undefined: the process may die
HandshakeCrash ==
  /\ pc = "open_handshake" /\ lsession = "null"
  /\ pc' = "crashed"
  /\ UNCHANGED <<either, last_call, sessVars, gsVars, execVars, sendVars>>
  /\ UNCHANGED engVars

\* ===================================================== simplessh_authenticate_*
AuthKinds == {"password", "key", "memory"}

AuthStart ==
  /\ pc = "idle" /\ have_session
  /\ \E k \in AuthKinds : last_call' = k
  /\ either' = NoEither
  /\ GsClear /\ ChanClear /\ ExecClear /\ SendClear
  /\ pc' = "auth_call"
  /\ UNCHANGED sessVars
  /\ EngClear

\* while((rc = libssh2_userauth_*(...)) == EAGAIN); then the either
Authenticate ==
  /\ pc = "auth_call"
  /\ \E r \in {0, EAGAIN, HardError} :
       /\ rc' = r
       /\ IF r = EAGAIN
          THEN UNCHANGED <<pc, either>>
          ELSE /\ pc' = "idle"
               /\ either' = IF r # 0
                            THEN [side |-> "LEFT", u |-> UnionStore("error", "AUTHENTICATION")]
                            ELSE EitherRight("session")
  /\ UNCHANGED <<last_call, sessVars, gsVars, channel, chan_got, chan_free_called,
                 result, rc2, out, err, out_size, out_position, err_size, err_position,
                 sent, nreads, engine_exit, sendVars>>
  /\ Track(last_call, rc') /\ UNCHANGED eof

\* ==================================================== waitsocket
\* select() on the session socket in the direction the engine is blocked on;
\* the caller then re-issues the operation it was waiting for
AfterWait == [exec_open_wait |-> "exec_open", exec_request_wait |-> "exec_request",
              exec_drain_wait |-> "exec_read", exec_close_wait |-> "exec_close",
              send_open_wait |-> "send_open"]

waitsocket ==
  /\ pc \in DOMAIN AfterWait
  /\ pc' = AfterWait[pc]
  /\ UNCHANGED <<either, last_call, sessVars, gsVars, execVars, sendVars>>
  /\ pending' = {} /\ UNCHANGED <<failed, eof>>

\* ================================================== simplessh_exec_command
ExecStart ==
  /\ pc = "idle" /\ have_session
  /\ last_call' = "exec"
  /\ GsClear /\ ChanClear /\ SendClear
  /\ result' = [st |-> "alloc", out |-> NullBuf, err |-> NullBuf,
                exit_code |-> DefaultExit, exit_signal |-> "NULL"]
  /\ either' = EitherRight("result")
  /\ rc2' = 0 /\ out' = NullBuf /\ err' = NullBuf
  /\ out_size' = 0 /\ out_position' = 0 /\ err_size' = 0 /\ err_position' = 0
  /\ sent' = [out |-> 0, err |-> 0] /\ nreads' = [out |-> 0, err |-> 0, short |-> 0]
  /\ engine_exit' = [code |-> 0, signal |-> "NULL"]
  /\ pc' = "exec_open"
  /\ UNCHANGED sessVars
  /\ EngClear

FreeBuf(b) == IF b.st # "null" THEN [b EXCEPT !.st = "freed"] ELSE b

\* mutant: the error return tears the session down, as returnLocalErrorSP does
AfterError_Teardown(error) == "close_disconnect"

\* where a call goes once its error is stored: returnError ends in return tmp,
\* the session is left as it is
AfterError(error) == "idle"

\* free(out); free(err); free(result); returnError(either, error);
\* the macro does not touch the channel
returnLocalErrorC(error) ==
  /\ out' = FreeBuf(out)
  /\ err' = FreeBuf(err)
  /\ result' = [result EXCEPT !.st = "freed"]
  /\ either' = returnError(either, error)
  /\ UNCHANGED <<channel, chan_free_called>>
  /\ pc' = AfterError(error)

\* while((channel = libssh2_channel_open_session(...)) == NULL) { ... }
ChannelOpenSession ==
  /\ pc = "exec_open"
  /\ \/ /\ channel' = "live" /\ chan_got' = TRUE
        /\ pc' = "exec_request"
        /\ UNCHANGED <<either, result, out, err, chan_free_called>>
     \/ /\ pc' = "exec_open_wait"
        /\ UNCHANGED <<either, result, out, err, channel, chan_got, chan_free_called>>
     \/ /\ returnLocalErrorC("CHANNEL_OPEN")
        /\ UNCHANGED chan_got
  /\ UNCHANGED <<last_call, sessVars, gsVars, rc, rc2, out_size, out_position, err_size,
                 err_position, sent, nreads, engine_exit, sendVars>>
  /\ Track("channel_open", IF pc' = "exec_open_wait" THEN EAGAIN
                            ELSE IF pc' = "exec_request" THEN 0 ELSE HardError)
  /\ UNCHANGED eof

\* while((rc = libssh2_channel_exec(channel, command)) != 0) { ... }
ChannelExec ==
  /\ pc = "exec_request"
  /\ \E r \in {0, EAGAIN, HardError} :
       /\ rc' = r
       /\ IF r = 0
          THEN /\ pc' = "exec_alloc"
               /\ UNCHANGED <<either, result, out, err, channel, chan_free_called>>
          ELSE IF r = EAGAIN
          THEN /\ pc' = "exec_request_wait"
               /\ UNCHANGED <<either, result, out, err, channel, chan_free_called>>
          ELSE returnLocalErrorC("CHANNEL_EXEC")
  /\ UNCHANGED <<last_call, sessVars, gsVars, chan_got, rc2, out_size, out_position,
                 err_size, err_position, sent, nreads, engine_exit, sendVars>>
  /\ Track("exec", rc') /\ UNCHANGED eof

\* int out_size = 128, ...; out = malloc(out_size); err = malloc(err_size)
DrainAlloc ==
  /\ pc = "exec_alloc"
  /\ out_size' = InitialSize /\ out_position' = 0
  /\ err_size' = InitialSize /\ err_position' = 0
  /\ out' = [st |-> "alloc", cap |-> InitialSize, mem |-> <<>>]
  /\ err' = [st |-> "alloc", cap |-> InitialSize, mem |-> <<>>]
  /\ pc' = "exec_read"
  /\ UNCHANGED <<either, last_call, sessVars, gsVars, channel, chan_got,
                 chan_free_called, result, rc, rc2, sent, nreads, engine_exit, sendVars>>
  /\ UNCHANGED engVars

\* the results a read of at most req bytes can have on stream s
ReadLens(req) ==
  {k \in (IF nreads.short < MaxShort THEN {1, req} ELSE {req}) : 1 <= k /\ k <= req}

ReadResults(s, req) ==
  {0, EAGAIN, HardError}
    \cup (IF nreads.out + nreads.err < MaxReads THEN ReadLens(req) ELSE {})

\* the read counters after a read of stream s that asked for req bytes returned r
CountRead(s, r, req) ==
  IF r > 0
  THEN [nreads EXCEPT ![s] = @ + 1, !.short = IF r < req THEN @ + 1 ELSE @]
  ELSE nreads

\* the engine stores the next r bytes of stream s at offset pos of buffer b
Deliver(b, pos, s, r) ==
  IF r > 0 THEN [b EXCEPT !.mem = MemWrite(b.mem, pos, Run(s, sent[s], r))] ELSE b

\* rc = libssh2_channel_read(channel, out + out_position, out_size - out_position - 1)
ReadStdoutFrom(results) ==
  /\ pc = "exec_read"
  /\ \E r \in results :
       /\ rc' = r
       /\ out' = Deliver(out, out_position, "out", r)
       /\ sent' = IF r > 0 THEN [sent EXCEPT !.out = @ + r] ELSE sent
       /\ nreads' = CountRead("out", r, out_size - out_position - 1)
  /\ pc' = "exec_read_stderr"
  /\ UNCHANGED <<either, last_call, sessVars, gsVars, channel, chan_got,
                 chan_free_called, result, rc2, err, out_size, out_position, err_size,
                 err_position, engine_exit, sendVars>>
  /\ Track("read_stdout", rc')
  /\ eof' = IF rc' = 0 THEN [eof EXCEPT !.out = TRUE] ELSE eof

\* rc2 = libssh2_channel_read_stderr(channel, err + err_position, err_size - err_position - 1)
ReadStderrFrom(results) ==
  /\ pc = "exec_read_stderr"
  /\ \E r \in results :
       /\ rc2' = r
       /\ err' = Deliver(err, err_position, "err", r)
       /\ sent' = IF r > 0 THEN [sent EXCEPT !.err = @ + r] ELSE sent
       /\ nreads' = CountRead("err", r, err_size - err_position - 1)
  /\ pc' = "exec_branch"
  /\ UNCHANGED <<either, last_call, sessVars, gsVars, channel, chan_got,
                 chan_free_called, result, rc, out, out_size, out_position, err_size,
                 err_position, engine_exit, sendVars>>
  /\ Track("read_stderr", rc2')
  /\ eof' = IF rc2' = 0 THEN [eof EXCEPT !.err = TRUE] ELSE eof

\* mutant: the position is not advanced past the bytes just read
Advance_Stuck(position, r) == position

ReadStdout == ReadStdoutFrom(ReadResults("out", out_size - out_position - 1))

ReadStderr == ReadStderrFrom(ReadResults("err", err_size - err_position - 1))

\* position += r; if(size - position < 1024) size = min(size * 2, size + 65536)
Advance(position, r) == position + r

\* mutant: the growth step is not capped
Grow_Uncapped(size, position) ==
  IF size - position < Headroom THEN size * 2 ELSE size

\* mutant: the buffer grows only once it is completely full
Grow_Late(size, position) ==
  IF size - position < 1 THEN min(size * 2, size + GrowCap) ELSE size

Grow(size, position) ==
  IF size - position < Headroom THEN min(size * 2, size + GrowCap) ELSE size

\* mutant: the loop is left as soon as one stream is at end-of-stream
BothEof_Either(r1, r2) == r1 = 0 \/ r2 = 0

\* mutant: the loop is left when stdout is at end-of-stream and stderr blocks
BothEof_Mismatch(r1, r2) == r1 = 0 /\ r2 = EAGAIN

\* if(rc == 0 && rc2 == 0) break
BothEof(r1, r2) == r1 = 0 /\ r2 = 0

\* mutant: every negative result, would-block included, counts as a failure
IsHard_AnyNegative(r) == r < 0

\* rc < 0 && rc != LIBSSH2_ERROR_EAGAIN
IsHard(r) == r < 0 /\ r # EAGAIN

\* the if / else-if chain of the drain loop, after both reads
DrainBranch ==
  /\ pc = "exec_branch"
  /\ IF BothEof(rc, rc2)
     THEN /\ pc' = "exec_finish"
          /\ UNCHANGED <<either, result, out, err, out_size, out_position, err_size,
                         err_position, channel, chan_free_called>>
     ELSE IF rc = EAGAIN /\ rc2 = EAGAIN
     THEN /\ pc' = "exec_drain_wait"
          /\ UNCHANGED <<either, result, out, err, out_size, out_position, err_size,
                         err_position, channel, chan_free_called>>
     ELSE IF IsHard(rc) \/ IsHard(rc2)
     THEN /\ returnLocalErrorC("READ")
          /\ UNCHANGED <<out_size, out_position, err_size, err_position>>
     ELSE /\ out_position' = IF rc > 0 THEN Advance(out_position, rc) ELSE out_position
          /\ out_size' = IF rc > 0 THEN Grow(out_size, out_position') ELSE out_size
          /\ out' = [out EXCEPT !.cap = out_size']
          /\ err_position' = IF rc2 > 0 THEN Advance(err_position, rc2) ELSE err_position
          /\ err_size' = IF rc2 > 0 THEN Grow(err_size, err_position') ELSE err_size
          /\ err' = [err EXCEPT !.cap = err_size']
          /\ pc' = "exec_read"
          /\ UNCHANGED <<either, result, channel, chan_free_called>>
  /\ UNCHANGED <<last_call, sessVars, gsVars, chan_got, rc, rc2, sent, nreads,
                 engine_exit, sendVars>>
  /\ UNCHANGED engVars

\* buf[position] = 0; buf = realloc(buf, position + 1)
Terminate(b, position) ==
  [st |-> b.st, cap |-> position + 1,
   mem |-> MemTake(MemWrite(b.mem, position, Run("nul", 0, 1)), position + 1)]

\* null-terminate and shrink both buffers, attach them to the result
DrainFinish ==
  /\ pc = "exec_finish"
  /\ out' = Terminate(out, out_position)
  /\ err' = Terminate(err, err_position)
  /\ result' = [result EXCEPT !.out = out', !.err = err']
  /\ pc' = "exec_close"
  /\ UNCHANGED <<either, last_call, sessVars, gsVars, channel, chan_got,
                 chan_free_called, rc, rc2, out_size, out_position, err_size,
                 err_position, sent, nreads, engine_exit, sendVars>>
  /\ UNCHANGED engVars

\* while((rc = libssh2_channel_close(channel)) == EAGAIN) waitsocket(...)
ChannelClose ==
  /\ pc = "exec_close"
  /\ \E r \in {0, EAGAIN, HardError} :
       /\ rc' = r
       /\ pc' = IF r = EAGAIN THEN "exec_close_wait" ELSE "exec_status"
  /\ UNCHANGED <<either, last_call, sessVars, gsVars, channel, chan_got,
                 chan_free_called, result, rc2, out, err, out_size, out_position,
                 err_size, err_position, sent, nreads, engine_exit, sendVars>>
  /\ Track("channel_close", rc') /\ UNCHANGED eof

ExitCodes == {0, 1}
ExitSignals == {"NULL", "TERM"}

\* mutant: the exit status is fetched whatever the close returned
CloseSucceeded_Any(r) == TRUE

\* the test guarding the exit status fetch
CloseSucceeded(r) == r = 0

\* if(rc == 0) { exit_code = libssh2_channel_get_exit_status; ..get_exit_signal }
ExitStatus ==
  /\ pc = "exec_status"
  /\ \E code \in ExitCodes, sig \in ExitSignals :
       /\ engine_exit' = IF CloseSucceeded(rc)
                         THEN [code |-> code, signal |-> sig]
                         ELSE engine_exit
       /\ result' = IF CloseSucceeded(rc)
                    THEN [result EXCEPT !.exit_code = code, !.exit_signal = sig]
                    ELSE result
  /\ pc' = "exec_free"
  /\ UNCHANGED <<either, last_call, sessVars, gsVars, channel, chan_got,
                 chan_free_called, rc, rc2, out, err, out_size, out_position,
                 err_size, err_position, sent, nreads, sendVars>>
  /\ UNCHANGED engVars

\* libssh2_channel_free(channel); return either
ChannelFree ==
  /\ pc = "exec_free"
  /\ \E r \in {0, EAGAIN, HardError} : channel' = IF r = 0 THEN "freed" ELSE channel
  /\ chan_free_called' = TRUE
  /\ pc' = "idle"
  /\ UNCHANGED <<either, last_call, sessVars, gsVars, chan_got, result, rc, rc2, out,
                 err, out_size, out_position, err_size, err_position, sent, nreads,
                 engine_exit, sendVars>>
  /\ UNCHANGED engVars

\* ===================================================== simplessh_send_file
DataLens == {0, 1, ChunkSize, ChunkSize + 1, 2 * ChunkSize + MaxExtra}

SendStart ==
  /\ pc = "idle" /\ have_session
  /\ last_call' = "send"
  /\ GsClear /\ ChanClear /\ ExecClear
  /\ data_len' \in DataLens
  /\ transferred' = [st |-> "alloc", val |-> 0]
  /\ either' = EitherRight("transferred")
  /\ n' = 0 /\ current_off' = 0 /\ accepted' = <<>> /\ npartial' = 0
  /\ pc' = "send_open"
  /\ UNCHANGED sessVars
  /\ EngClear

\* if(channel) libssh2_channel_free(channel); either->side = LEFT;
\* either->u.error = err; return either
returnLocalErrorS(error) ==
  /\ IF channel # "null"
     THEN /\ \E r \in {0, EAGAIN, HardError} : channel' = IF r = 0 THEN "freed" ELSE channel
          /\ chan_free_called' = TRUE
     ELSE UNCHANGED <<channel, chan_free_called>>
  /\ either' = [either EXCEPT !.side = "LEFT", !.u = UnionStore("error", error)]
  /\ pc' = AfterError(error)

\* while((channel = libssh2_scp_send(...)) == NULL) { ... }
ScpSend ==
  /\ pc = "send_open"
  /\ \/ /\ channel' = "live" /\ chan_got' = TRUE
        /\ pc' = "send_chunk"
        /\ UNCHANGED <<either, chan_free_called>>
     \/ /\ pc' = "send_open_wait"
        /\ UNCHANGED <<either, channel, chan_got, chan_free_called>>
     \/ /\ returnLocalErrorS("CHANNEL_OPEN")
        /\ UNCHANGED chan_got
  /\ UNCHANGED <<last_call, sessVars, gsVars, result, rc, rc2, out, err, out_size,
                 out_position, err_size, err_position, sent, nreads, engine_exit,
                 sendVars>>
  /\ Track("scp_send", IF pc' = "send_open_wait" THEN EAGAIN
                        ELSE IF pc' = "send_chunk" THEN 0 ELSE HardError)
  /\ UNCHANGED eof

\* mutant: the chunk is cut from the whole length, not from what remains
ChunkLen_Whole(len, done) == min(len, ChunkSize)

\* size_t n = min(data_len - *transferred, 16 * 1024)
ChunkLen(len, done) == min(len - done, ChunkSize)

\* mutant: the outer loop runs once more when everything has been sent
MoreToSend_OffByOne(done, len) == done <= len

\* while(*transferred < data_len)
MoreToSend(done, len) == done < len

\* while(*transferred < data_len) { n = ...; current = data + *transferred; ...
SendChunk ==
  /\ pc = "send_chunk"
  /\ IF MoreToSend(transferred.val, data_len)
     THEN /\ n' = ChunkLen(data_len, transferred.val)
          /\ current_off' = transferred.val
          /\ pc' = IF n' > 0 THEN "send_write" ELSE "send_chunk"
     ELSE /\ pc' = "send_eof"
          /\ UNCHANGED <<n, current_off>>
  /\ UNCHANGED <<either, last_call, sessVars, gsVars, execVars, data_len, transferred,
                 accepted, npartial>>
  /\ UNCHANGED engVars

\* what a write of len bytes can return
WriteResults(len) ==
  {EAGAIN, HardError, 0, len} \cup (IF npartial < MaxPartial THEN {1} ELSE {})

\* mutant: an accepted write is counted twice
Count_Twice(done, r) == done + r + r

\* *transferred += rc
Count(done, r) == done + r

\* while(n > 0) { while((rc = libssh2_channel_write(channel, current, n)) == EAGAIN);
\*   if(rc < 0) returnLocalErrorS(WRITE); n -= rc; current += rc; *transferred += rc; }
ChannelWrite ==
  /\ pc = "send_write"
  /\ \E r \in WriteResults(n) :
       /\ rc' = r
       /\ IF r = EAGAIN
          THEN UNCHANGED <<pc, either, channel, chan_free_called, n, current_off,
                           transferred, accepted, npartial>>
          ELSE IF r < 0
          THEN /\ returnLocalErrorS("WRITE")
               /\ UNCHANGED <<n, current_off, transferred, accepted, npartial>>
          ELSE /\ n' = n - r
               /\ current_off' = current_off + r
               /\ transferred' = [transferred EXCEPT !.val = Count(@, r)]
               /\ accepted' = IF r > 0
                              THEN MemNorm(accepted \o <<Run("data", current_off, r)>>)
                              ELSE accepted
               /\ npartial' = IF 0 < r /\ r < n THEN npartial + 1 ELSE npartial
               /\ pc' = IF n' > 0 THEN "send_write" ELSE "send_chunk"
               /\ UNCHANGED <<either, channel, chan_free_called>>
  /\ UNCHANGED <<last_call, sessVars, gsVars, chan_got, result, rc2, out, err, out_size,
                 out_position, err_size, err_position, sent, nreads, engine_exit,
                 data_len>>
  /\ Track("write", rc') /\ UNCHANGED eof

\* while(libssh2_channel_send_eof(channel) == EAGAIN);
SendEof ==
  /\ pc = "send_eof"
  /\ \E r \in {0, EAGAIN, HardError} :
       /\ pc' = IF r = EAGAIN THEN pc ELSE "send_close"
       /\ Track("send_eof", r)
  /\ UNCHANGED eof
  /\ UNCHANGED <<either, last_call, sessVars, gsVars, execVars, sendVars>>

\* while(libssh2_channel_close(channel) == EAGAIN);
SendClose ==
  /\ pc = "send_close"
  /\ \E r \in {0, EAGAIN, HardError} :
       /\ pc' = IF r = EAGAIN THEN pc ELSE "send_free"
       /\ Track("channel_close", r)
  /\ UNCHANGED eof
  /\ UNCHANGED <<either, last_call, sessVars, gsVars, execVars, sendVars>>

\* while(libssh2_channel_free(channel) == EAGAIN); return either
SendFree ==
  /\ pc = "send_free"
  /\ \E r \in {0, EAGAIN, HardError} :
       /\ channel' = IF r = 0 THEN "freed" ELSE channel
       /\ pc' = IF r = EAGAIN THEN pc ELSE "idle"
  /\ chan_free_called' = TRUE
  /\ UNCHANGED <<either, last_call, sessVars, gsVars, chan_got, result, rc, rc2, out,
                 err, out_size, out_position, err_size, err_position, sent, nreads,
                 engine_exit, sendVars>>
  /\ UNCHANGED engVars

\* ====================================================== the specification
Next ==
  \/ OpenStart \/ Getaddrinfo \/ GsExhausted \/ GsSocket \/ GsConnect \/ GsPoll
  \/ OpenConnected \/ SessionInit \/ OpenSetup \/ Handshake \/ HandshakeCrash
  \/ AuthStart \/ Authenticate
  \/ waitsocket
  \/ ExecStart \/ ChannelOpenSession \/ ChannelExec \/ DrainAlloc \/ ReadStdout
  \/ ReadStderr \/ DrainBranch \/ DrainFinish \/ ChannelClose \/ ExitStatus
  \/ ChannelFree
  \/ SendStart \/ ScpSend \/ SendChunk \/ ChannelWrite \/ SendEof \/ SendClose
  \/ SendFree
  \/ CloseStart \/ SessionDisconnect \/ SessionFree \/ CloseSock \/ CloseReturn

Spec == Init /\ [][Next]_vars

\* ------------------------------------------------- exec and send, with fairness
\* A session that simplessh_open_session has just returned to the caller.
LiveInit ==
  /\ pending = {} /\ failed = {} /\ eof = [out |-> FALSE, err |-> FALSE]
  /\ pc = "idle" /\ either = EitherRight("session") /\ last_call = "open"
  /\ have_session = TRUE /\ smem = "alloc" /\ sock = "open" /\ lsession = "live"
  /\ init_calls = 1 /\ exit_calls = 0 /\ opens = 1 /\ close_ret = "caller"
  /\ resolved = TRUE /\ cands = <<TRUE>> /\ current = 1
  /\ gsock = [st |-> "open", fam |-> 1, addr |-> 1]
  /\ tried = <<1>> /\ fds_open = 1 /\ res_freed = 1
  /\ gs_ret = [fd |-> "open", cand |-> 1, addr |-> 1]
  /\ channel = "null" /\ chan_got = FALSE /\ chan_free_called = FALSE /\ rc = 0
  /\ result = NoResult /\ rc2 = 0 /\ out = NullBuf /\ err = NullBuf
  /\ out_size = 0 /\ out_position = 0 /\ err_size = 0 /\ err_position = 0
  /\ sent = [out |-> 0, err |-> 0] /\ nreads = [out |-> 0, err |-> 0, short |-> 0]
  /\ engine_exit = [code |-> 0, signal |-> "NULL"]
  /\ data_len = 0 /\ transferred = [st |-> "none", val |-> 0] /\ n = 0
  /\ current_off = 0 /\ accepted = <<>> /\ npartial = 0

\* a stream that has returned end-of-stream keeps returning it
LiveResults(s, req) ==
  IF eof[s] THEN {0}
  ELSE {0, EAGAIN, HardError}
         \cup (IF nreads.out + nreads.err < MaxLiveReads THEN ReadLens(req) ELSE {})

ReadStdoutLive == ReadStdoutFrom(LiveResults("out", out_size - out_position - 1))

ReadStderrLive == ReadStderrFrom(LiveResults("err", err_size - err_position - 1))

NextLive ==
  \/ waitsocket
  \/ ExecStart \/ ChannelOpenSession \/ ChannelExec \/ DrainAlloc \/ ReadStdoutLive
  \/ ReadStderrLive \/ DrainBranch \/ DrainFinish \/ ChannelClose \/ ExitStatus
  \/ ChannelFree
  \/ SendStart \/ ScpSend \/ SendChunk \/ ChannelWrite \/ SendEof \/ SendClose
  \/ SendFree

\* the program keeps running, and every engine operation eventually returns
\* a result other than would-block
LiveFair ==
  /\ WF_vars(NextLive)
  /\ SF_vars(ChannelOpenSession /\ pc' # "exec_open_wait")
  /\ SF_vars(ChannelExec /\ rc' # EAGAIN)
  /\ SF_vars(ReadStdoutLive /\ rc' # EAGAIN)
  /\ SF_vars(ReadStderrLive /\ rc2' # EAGAIN)
  /\ SF_vars(ChannelClose /\ rc' # EAGAIN)
  /\ SF_vars(ScpSend /\ pc' # "send_open_wait")
  /\ SF_vars(ChannelWrite /\ rc' # EAGAIN)
  /\ SF_vars(SendEof /\ pc' # pc)
  /\ SF_vars(SendClose /\ pc' # pc)
  /\ SF_vars(SendFree /\ pc' # pc)

SpecLive == LiveInit /\ [][NextLive]_vars /\ LiveFair

\* ================================================================ claims
ExecReturned == pc = "idle" /\ last_call = "exec"
ExecSucceeded == ExecReturned /\ either.side = "RIGHT"
SendReturned == pc = "idle" /\ last_call = "send"
SendSucceeded == SendReturned /\ either.side = "RIGHT"
SendFailed(kind) == SendReturned /\ either.side = "LEFT" /\ either.u.val = kind
OpenReturned == pc = "idle" /\ last_call = "open"

\* all bytes delivered on stream s, in delivery order, then the terminator
Delivered(s) ==
  (IF sent[s] > 0 THEN <<Run(s, 0, sent[s])>> ELSE <<>>) \o <<Run("nul", 0, 1)>>

\* C1: when simplessh_exec_command returns the success side, each returned
\* buffer holds exactly the bytes the engine delivered on its own stream, in
\* delivery order, followed by one null terminator, and its allocation is
\* exactly (bytes delivered + 1) bytes; stdout and stderr independently.
C1_BuffersExact ==
  ExecSucceeded =>
    /\ result.st = "alloc"
    /\ result.out.st = "alloc" /\ result.err.st = "alloc"
    /\ result.out.mem = Delivered("out") /\ result.out.cap = sent.out + 1
    /\ result.err.mem = Delivered("err") /\ result.err.cap = sent.err + 1

C1_Witness ==
  /\ ExecSucceeded
  /\ nreads.out >= 2 /\ nreads.err >= 2
  /\ sent.out > InitialSize /\ sent.err >= 2

\* C2: when simplessh_exec_command returns the success side, exit_code and
\* exit_signal are what the engine reported if the channel close returned 0,
\* and 127 with a null signal if the close ended with a hard error; once the
\* drain has ended the call can only return the success side.
C2_ExitCode ==
  /\ ExecSucceeded =>
       /\ rc = 0 => /\ result.exit_code = engine_exit.code
                     /\ result.exit_signal = engine_exit.signal
       /\ rc # 0 => /\ rc = HardError
                     /\ result.exit_code = DefaultExit
                     /\ result.exit_signal = "NULL"
  /\ pc \in {"exec_close", "exec_close_wait", "exec_status", "exec_free"}
       => either.side = "RIGHT"
  /\ (ExecReturned /\ either.side = "LEFT")
       => either.u.val \in {"CHANNEL_OPEN", "CHANNEL_EXEC", "READ"}

C2_Witness ==
  /\ ExecSucceeded /\ rc = HardError
  /\ result.exit_code = DefaultExit /\ result.exit_signal = "NULL"

\* C3 (as claimed): when simplessh_exec_command or simplessh_send_file
\* returns, success or error, every channel handle the call obtained has
\* been passed to libssh2_channel_free.
C3_NoChannelLeak ==
  ((ExecReturned \/ SendReturned) /\ chan_got) => chan_free_called

SessionCalls == AuthKinds \cup {"exec", "send"}

\* C4: no step of an authentication, exec or send call changes the session's
\* socket, engine handle or record, so when such a call returns (success or
\* error) the socket is open and the handle live; only steps of
\* simplessh_close_session and simplessh_open_session change them.
C4_SessionUntouched ==
  /\ [](have_session => (sock = "open" /\ lsession = "live" /\ smem = "alloc"))
  /\ [][(sock' # sock \/ lsession' # lsession \/ smem' # smem)
           => last_call' \in {"open", "close"}]_vars

C4_Witness ==
  /\ pc = "idle" /\ last_call \in SessionCalls /\ either.side = "LEFT"
  /\ have_session /\ sock = "open" /\ lsession = "live"

\* the count a caller can read from the either: the value pointer is there
\* only while the union member u holds the success side
ReportedCount == IF either.u.tag = "value" THEN transferred.val ELSE -1

Payload(len) == IF len > 0 THEN <<Run("data", 0, len)>> ELSE <<>>

\* C6: simplessh_send_file returns the success side only with the counter
\* equal to data_len; the counter never exceeds data_len; every write request
\* starts at the payload offset equal to the counter and asks for at least 1
\* and at most min(16384, data_len - counter) bytes; the engine accepts the
\* payload bytes in order, none skipped or repeated.
C6_TransferExact ==
  /\ SendSucceeded => (transferred.val = data_len /\ accepted = Payload(data_len))
  /\ last_call = "send" =>
       /\ transferred.val <= data_len
       /\ accepted = Payload(transferred.val)
  /\ pc = "send_write" =>
       /\ current_off = transferred.val
       /\ 1 <= n /\ n <= min(ChunkSize, data_len - transferred.val)

C6_Witness ==
  /\ SendSucceeded /\ data_len > 2 * ChunkSize /\ npartial >= 2

\* the engine operation the running call issues next
NextOp ==
  CASE pc = "open_handshake" -> "handshake"
    [] pc = "auth_call" -> last_call
    [] pc = "exec_open" -> "channel_open"
    [] pc = "exec_request" -> "exec"
    [] pc = "exec_read" -> "read_stdout"
    [] pc = "exec_read_stderr" -> "read_stderr"
    [] pc = "exec_close" -> "channel_close"
    [] pc = "send_open" -> "scp_send"
    [] pc = "send_write" -> "write"
    [] pc = "send_eof" -> "send_eof"
    [] pc = "send_close" -> "channel_close"
    [] OTHER -> "none"

\* C11 (as claimed): no engine operation that returned would-block is issued
\* again before a waitsocket on the session socket has taken place.
C11_WaitBeforeRetry == NextOp \notin pending

\* the error kind returned for a hard failure of each fallible operation
ErrKindOf == [handshake |-> "HANDSHAKE", password |-> "AUTHENTICATION",
              key |-> "AUTHENTICATION", memory |-> "AUTHENTICATION",
              channel_open |-> "CHANNEL_OPEN", exec |-> "CHANNEL_EXEC",
              read_stdout |-> "READ", read_stderr |-> "READ",
              scp_send |-> "CHANNEL_OPEN", write |-> "WRITE"]

FailedOps == failed \cap DOMAIN ErrKindOf

\* C12: an engine operation of open, authenticate, exec or send that returned
\* a hard failure is not issued again in the same call, the call returns the
\* matching error kind, and a call returns an engine error kind only after an
\* operation returned a hard failure, never because of a would-block.
C12_ErrorsNotRetried ==
  /\ NextOp \notin FailedOps
  /\ (pc = "idle" /\ FailedOps # {}) =>
       /\ either.side = "LEFT"
       /\ either.u.val \in {ErrKindOf[op] : op \in FailedOps}
  /\ (pc = "idle" /\ either.side = "LEFT") =>
       \/ either.u.val \in {ErrKindOf[op] : op \in FailedOps}
       \/ (either.u.val = "CONNECT" /\ failed = {})

C12_Witness ==
  /\ ExecReturned /\ either.side = "LEFT" /\ either.u.val = "READ"
  /\ failed = {"read_stderr"} /\ rc = EAGAIN

\* C13: the drain loop goes on to the success path only from an iteration in
\* which both reads returned 0; it fails with READ exactly when one of the two
\* reads of an iteration returned a negative result other than would-block,
\* and then both buffers and the result record are freed.
C13_DrainExits ==
  /\ [](pc = "exec_finish" => (rc = 0 /\ rc2 = 0))
  /\ []((ExecReturned /\ either.side = "LEFT" /\ either.u.val = "READ") =>
         /\ (rc < 0 /\ rc # EAGAIN) \/ (rc2 < 0 /\ rc2 # EAGAIN)
         /\ out.st = "freed" /\ err.st = "freed" /\ result.st = "freed")
  /\ [][pc = "exec_branch" =>
         /\ pc' = "exec_finish" <=> (rc = 0 /\ rc2 = 0)
         /\ ((rc < 0 /\ rc # EAGAIN) \/ (rc2 < 0 /\ rc2 # EAGAIN))
              <=> (pc' = "idle" /\ either'.side = "LEFT" /\ either'.u.val = "READ")]_vars

C13_Witness ==
  /\ ExecReturned /\ either.side = "LEFT" /\ either.u.val = "READ"
  /\ rc > 0 /\ rc2 = HardError /\ sent.out > 0 /\ sent.err > 0
  /\ out.st = "freed" /\ err.st = "freed"

DrainPcs == {"exec_read", "exec_read_stderr", "exec_branch", "exec_drain_wait"}

\* the capacity the policy prescribes after the position reached p
Policy(c, p) ==
  IF c - p >= 1024 THEN c ELSE IF 2 * c <= c + 65536 THEN 2 * c ELSE c + 65536

\* C14: both buffers start with capacity 128; a drain iteration changes the
\* capacity of a buffer only when it delivered bytes to that stream and the
\* loop goes on, and then to min(2 * capacity, capacity + 65536) if capacity
\* minus the new position is below 1024; the capacity never decreases and
\* each buffer follows its own stream only.
C14_GrowthPolicy ==
  [][/\ pc = "exec_alloc" =>
          /\ out_size' = 128 /\ err_size' = 128
          /\ out'.cap = 128 /\ err'.cap = 128
     /\ pc \in DrainPcs =>
          /\ out_size' = IF pc = "exec_branch" /\ pc' = "exec_read" /\ rc > 0
                         THEN Policy(out_size, out_position + rc) ELSE out_size
          /\ err_size' = IF pc = "exec_branch" /\ pc' = "exec_read" /\ rc2 > 0
                         THEN Policy(err_size, err_position + rc2) ELSE err_size
          /\ out_size' >= out_size /\ err_size' >= err_size
          /\ pc' \in DrainPcs => (out'.cap = out_size' /\ err'.cap = err_size')]_vars

C14_Witness ==
  /\ pc = "exec_read" /\ out_size = 131072 + 65536 /\ err_size = 128
  /\ out.cap = out_size

\* C15: at the start of every drain iteration and at the loop exit each
\* position is between 0 and capacity - 1, the bytes stored so far lie inside
\* the allocation, and every read asks for at least 1 byte.
C15_BufferBounds ==
  /\ pc \in DrainPcs \cup {"exec_finish"} =>
       /\ 0 <= out_position /\ out_position <= out_size - 1
       /\ 0 <= err_position /\ err_position <= err_size - 1
       /\ out.cap = out_size /\ err.cap = err_size
       /\ MemLen(out.mem) <= out.cap - 1 /\ MemLen(err.mem) <= err.cap - 1
  /\ pc = "exec_read" => out_size - out_position - 1 >= 1
  /\ pc \in {"exec_read", "exec_read_stderr"} => err_size - err_position - 1 >= 1

C15_Witness ==
  /\ pc = "exec_finish" /\ out_position = InitialSize - 1
  /\ out_size = 2 * InitialSize /\ err_position > 0

\* C16 (as claimed): an iteration of the drain loop in which neither read
\* delivered a byte and which neither ends the loop nor fails goes through
\* waitsocket before the next pair of reads.
C16_NoBusyLoop ==
  [][(pc = "exec_branch" /\ rc <= 0 /\ rc2 <= 0 /\ pc' \notin {"exec_finish", "idle"})
       => pc' = "exec_drain_wait"]_vars

\* C7 (as claimed): open returns CONNECT when the connector fails, INIT when
\* the connector succeeds and libssh2_session_init returns no handle,
\* HANDSHAKE when the handshake fails on an allocated handle, success only
\* when all three succeed, and no engine operation runs on a NULL handle.
C7_Classified ==
  /\ pc \in {"open_setup", "open_handshake", "close_disconnect", "close_free"}
       => lsession # "null"
  /\ pc # "crashed"
  /\ OpenReturned =>
       /\ gs_ret.fd # "open" => (either.side = "LEFT" /\ either.u.val = "CONNECT")
       /\ (gs_ret.fd = "open" /\ lsession = "null")
            => (either.side = "LEFT" /\ either.u.val = "INIT")
       /\ (gs_ret.fd = "open" /\ lsession # "null" /\ rc # 0)
            => (either.side = "LEFT" /\ either.u.val = "HANDSHAKE")
       /\ either.side = "RIGHT" => (gs_ret.fd = "open" /\ lsession = "live" /\ rc = 0)

\* C8 (as claimed): when open returns the error side after the connector
\* succeeded, the socket it obtained is closed and the engine handle it
\* allocated is freed.
C8_FailedOpenTornDown ==
  (OpenReturned /\ either.side = "LEFT" /\ gs_ret.fd = "open")
    => (sock = "closed" /\ lsession \in {"null", "freed"})

\* C9 (as claimed): the socket is never closed while the engine handle is
\* still allocated, and after close returns the handle is never released
\* with the socket still open, whatever disconnect and free-session return.
C9_TornDownTogether ==
  /\ ~(sock = "closed" /\ lsession \in {"live", "disc"})
  /\ pc = "idle" => ~(sock = "open" /\ lsession = "freed")

\* C10 (as claimed): each candidate is tried with its own family and
\* address, and the connector returns the socket of the first candidate that
\* becomes ready: it fails only if resolution failed or no candidate for
\* which a socket could be created becomes ready.
C10_FirstReadyCandidate ==
  /\ pc \in {"gs_connect", "gs_poll"} => gsock.fam = current
  /\ pc = "gs_poll" => gsock.addr = current
  /\ (pc = "open_connected" /\ gs_ret.fd = "open") =>
       /\ gs_ret.addr = gs_ret.cand
       /\ cands[gs_ret.cand]

ExecRunning == last_call = "exec" /\ pc # "idle"
SendRunning == last_call = "send" /\ pc # "idle"

\* C17: if every engine operation eventually returns a result other than
\* would-block and a stream that has returned end-of-stream keeps returning
\* it, every simplessh_exec_command call eventually returns.
C17_ExecTerminates == ExecRunning ~> (pc = "idle")

C17_Witness ==
  /\ ExecSucceeded /\ eof.out /\ eof.err
  /\ nreads.out >= 1 /\ nreads.err >= 1 /\ rc = 0

\* C18 (as claimed): if every engine operation eventually returns a result
\* other than would-block, every simplessh_send_file call eventually returns,
\* writes that accept 0 bytes included.
C18_SendTerminates == SendRunning ~> (pc = "idle")

\* C18 (amended): under the same fairness every simplessh_send_file call
\* eventually returns unless, from some point on, every write of one request
\* accepts 0 bytes or would-block: only a write that accepts at least one
\* byte makes progress.
C18_SendTerminatesOnProgress ==
  (<>[](pc = "send_write" /\ rc \in {0, EAGAIN})) \/ (SendRunning ~> (pc = "idle"))

C18_Witness ==
  /\ SendSucceeded /\ data_len > ChunkSize /\ npartial >= 1
  /\ transferred.val = data_len /\ channel = "freed"

\* C19 (as claimed): whenever no session is open and no call is running, the
\* libssh2_init calls equal the libssh2_exit calls, and the session record of
\* a failed open has been freed.
C19_InitExitBalanced ==
  (pc = "idle" /\ ~have_session) =>
    /\ init_calls = exit_calls
    /\ smem \in {"none", "freed"}

\* C20: when get_socket returns, the sockets it created and did not close
\* number 1 on success (the returned one) and 0 on failure; no socket of an
\* earlier candidate is open when the next one is tried; the resolved list is
\* freed once on every return path that has one.
C20_NoDescriptorLeak ==
  /\ pc = "gs_socket" => fds_open = 0
  /\ pc \in {"gs_connect", "gs_poll"} => (fds_open = 1 /\ gsock.st = "open")
  /\ pc = "open_connected" =>
       /\ gs_ret.fd = "open" => (fds_open = 1 /\ gsock.st = "open")
       /\ gs_ret.fd # "open" => (fds_open = 0 /\ gsock.st # "open")
       /\ res_freed = IF resolved THEN 1 ELSE 0

C20_Witness ==
  /\ pc = "open_connected" /\ gs_ret.fd = "fail" /\ resolved
  /\ Len(tried) >= 2 /\ fds_open = 0 /\ res_freed = 1
====
